---- MODULE Spec2Model ----
(***************************************************************************)
(* Model of the Pulumi program src/__main__.py (with src/training.py).     *)
(*                                                                         *)
(* The program is a straight-line script: each top-level statement         *)
(* registers resources with the provisioning engine and returns at once.   *)
(* The engine creates a registered resource once every resource it refers  *)
(* to (its inputs that are outputs of other resources) has been created.   *)
(* A creation is one provider call, which the provider accepts or rejects. *)
(* After a rejection the engine ends the run: the program is stopped, no   *)
(* further creation is started and nothing is rolled back.  The stack      *)
(* state survives between runs of the program: a resource whose URN (type  *)
(* and name) is already created with the same inputs is left as it is.     *)
(***************************************************************************)
EXTENDS Integers, Sequences, FiniteSets, TLC

VARIABLES
    pc,                    \* the statement of __main__.py to execute next
    run,                   \* number of the current run of the program
    config,                \* the stack configuration (pulumi.Config)
    min_cluster_size,      \* __main__.py:71
    max_cluster_size,      \* __main__.py:72
    desired_cluster_size,  \* __main__.py:73
    registered,            \* URNs registered by the current run
    stack,                 \* URN -> [res, status]: the engine's stack state
    halted                 \* a creation of the current run was rejected

vars == <<pc, run, config, min_cluster_size, max_cluster_size,
          desired_cluster_size, registered, stack, halted>>

-----------------------------------------------------------------------------
(* Bounds *)

\* configuration integers range over 1..MaxConfigInt (or are not set)
MaxConfigInt == 1
\* number of times the program is run against the same stack
MaxRuns == 2

-----------------------------------------------------------------------------
(* Configuration: __main__.py:70-75 *)

\* a configuration value is <<>> (key not set) or <<n>>
ConfigInts == {<<>>} \cup {<<n>> : n \in 1..MaxConfigInt}

Configs == [minClusterSize : ConfigInts,
            maxClusterSize : ConfigInts,
            desiredClusterSize : ConfigInts]

\* config.get_int(key, default)
get_int(key, default) ==
    IF Len(config[key]) = 0 THEN default ELSE config[key][1]

-----------------------------------------------------------------------------
(* Resources.  A resource is [type, name, deps, props]; deps are the URNs   *)
(* of the resources whose outputs appear among its arguments.              *)

URN(type, name) == type \o "::" \o name

UrnOf(r) == URN(r.type, r.name)

\* the .arn output of a resource, as it appears in another one's arguments
ArnOf(r) == "${" \o UrnOf(r) \o ".arn}"

\* a Kubernetes quantity literal: "2" is Q(2, ""), "2Gi" is Q(2, "Gi")
Q(amount, suffix) == [amount |-> amount, suffix |-> suffix]

managed_policy_arns ==
    << "arn:aws:iam::aws:policy/AmazonEKSWorkerNodePolicy",
       "arn:aws:iam::aws:policy/AmazonEKS_CNI_Policy",
       "arn:aws:iam::aws:policy/AmazonEC2ContainerRegistryReadOnly",
       "arn:aws:iam::aws:policy/AmazonSSMManagedInstanceCore" >>

\* aws.iam.Role(name, assume_role_policy=...)
Role(name) ==
    [type  |-> "aws:iam:Role",
     name  |-> name,
     deps  |-> {},
     props |-> [assume_role_policy |->
                   [Action |-> "sts:AssumeRole", Effect |-> "Allow",
                    Principal |-> "ec2.amazonaws.com"]]]

\* variant: the attachment's name also carries the number of the run
ManagedAttachment_named_per_run(name, counter) ==
    [type  |-> "aws:iam:RolePolicyAttachment",
     name  |-> name \o "-policy-" \o ToString(run) \o "-" \o ToString(counter),
     deps  |-> {UrnOf(Role(name))},
     props |-> [policy_arn |-> managed_policy_arns[counter + 1],
                role       |-> UrnOf(Role(name))]]

\* variant: each attachment waits for the one made before it
ManagedAttachment_chained(name, counter) ==
    [type  |-> "aws:iam:RolePolicyAttachment",
     name  |-> name \o "-policy-" \o ToString(counter),
     deps  |-> {UrnOf(Role(name))} \cup
               (IF counter = 0 THEN {}
                ELSE {URN("aws:iam:RolePolicyAttachment",
                          name \o "-policy-" \o ToString(counter - 1))}),
     props |-> [policy_arn |-> managed_policy_arns[counter + 1],
                role       |-> UrnOf(Role(name))]]

\* aws.iam.RolePolicyAttachment(f"{name}-policy-{counter}", policy_arn=policy, role=role)
ManagedAttachment(name, counter) ==
    [type  |-> "aws:iam:RolePolicyAttachment",
     name  |-> name \o "-policy-" \o ToString(counter),
     deps  |-> {UrnOf(Role(name))},
     props |-> [policy_arn |-> managed_policy_arns[counter + 1],
                role       |-> UrnOf(Role(name))]]

\* aws.iam.Policy(f"{name}-ecr-policy", ...)
EcrPolicy(name) ==
    [type  |-> "aws:iam:Policy",
     name  |-> name \o "-ecr-policy",
     deps  |-> {},
     props |-> [Effect   |-> "Allow",
                Action   |-> {"ecr:BatchCheckLayerAvailability",
                              "ecr:BatchGetImage",
                              "ecr:GetDownloadUrlForLayer",
                              "ecr:GetAuthorizationToken"},
                Resource |-> "*"]]

\* aws.iam.RolePolicyAttachment(f"{name}-ecr-policy-attachment", policy_arn=ecr_policy.arn, role=role)
EcrAttachment(name) ==
    [type  |-> "aws:iam:RolePolicyAttachment",
     name  |-> name \o "-ecr-policy-attachment",
     deps  |-> {UrnOf(EcrPolicy(name)), UrnOf(Role(name))},
     props |-> [policy_arn |-> ArnOf(EcrPolicy(name)),
                role       |-> UrnOf(Role(name))]]

\* the resources create_role(name) registers, in the order it registers them
create_role(name) ==
    << Role(name) >>
    \o [i \in 1..Len(managed_policy_arns) |-> ManagedAttachment(name, i - 1)]
    \o << EcrPolicy(name), EcrAttachment(name) >>

node_role == Role("node-role")

\* training.py: awsx.ecr.Repository("training-image", force_delete=True)
ecr_repo ==
    [type  |-> "awsx:ecr:Repository",
     name  |-> "training-image",
     deps  |-> {},
     props |-> [force_delete |-> TRUE]]

\* training.py: awsx.ecr.Image("training-image", repository_url=ecr_repo...)
image ==
    [type  |-> "awsx:ecr:Image",
     name  |-> "training-image",
     deps  |-> {UrnOf(ecr_repo)},
     props |-> [repository_url |-> UrnOf(ecr_repo),
                context        |-> "./training_program",
                dockerfile     |-> "./training_program/Dockerfile"]]

\* the resources training_image() registers
training_image == << ecr_repo, image >>

eks_vpc ==
    [type  |-> "awsx:ec2:Vpc",
     name  |-> "eks-vpc",
     deps  |-> {},
     props |-> [enable_dns_hostnames |-> TRUE]]

\* variant: neither endpoint is enabled
cluster_endpoint_access_none == [endpoint_private_access |-> FALSE,
                                 endpoint_public_access  |-> FALSE]

\* __main__.py:95-96
cluster_endpoint_access == [endpoint_private_access |-> FALSE,
                            endpoint_public_access  |-> TRUE]

eks_cluster(minSize, desired, maxSize) ==
    [type  |-> "eks:index:Cluster",
     name  |-> "eks-cluster",
     deps  |-> {UrnOf(eks_vpc)},
     props |-> [vpc_id                  |-> UrnOf(eks_vpc),
                authentication_mode     |-> "API",
                desired_capacity        |-> desired,
                min_size                |-> minSize,
                max_size                |-> maxSize,
                node_associate_public_ip_address |-> FALSE,
                endpoint_private_access |->
                    cluster_endpoint_access.endpoint_private_access,
                endpoint_public_access  |->
                    cluster_endpoint_access.endpoint_public_access]]

\* every argument of the cluster that is a resource reference has the same
\* URN whatever the capacity values are
ClusterUrn == URN("eks:index:Cluster", "eks-cluster")

\* variant: the node group names the cluster by a plain string
managed_node_group_gpu_deps_without_cluster == {UrnOf(node_role), UrnOf(eks_vpc)}

\* the resources the node group's arguments refer to: cluster=eks_cluster,
\* node_role_arn=node_role.arn, subnet_ids=eks_vpc.private_subnet_ids
managed_node_group_gpu_deps == {ClusterUrn, UrnOf(node_role), UrnOf(eks_vpc)}

\* __main__.py:113-115; literal is the place the text is written at
managed_node_group_gpu_labels ==
    {[key |-> "nvidia-device-plugin-enabled", value |-> "true",
      literal |-> "__main__.py:114"]}

\* __main__.py:120-124
managed_node_group_gpu_taints ==
    {[key |-> "nvidia.com/gpu", value |-> "true", effect |-> "NO_SCHEDULE"]}

managed_node_group_gpu ==
    [type  |-> "eks:index:ManagedNodeGroup",
     name  |-> "al-2023-mng-nvidia-gpu",
     deps  |-> managed_node_group_gpu_deps,
     props |-> [cluster        |-> ClusterUrn,
                node_role_arn  |-> ArnOf(node_role),
                subnet_ids     |-> UrnOf(eks_vpc),
                gpu            |-> TRUE,
                instance_types |-> <<"g4dn.xlarge">>,
                scaling_config |-> [desired_size |-> 1, max_size |-> 3,
                                    min_size |-> 1],
                disk_size      |-> 500,
                labels         |-> managed_node_group_gpu_labels,
                taints         |-> managed_node_group_gpu_taints]]

\* __main__.py:149-153; a toleration without a value has the empty value
nvidia_device_plugin_tolerations ==
    {[key |-> "nvidia.com/gpu", operator |-> "Exists", value |-> "",
      effect |-> "NoSchedule"]}

\* variant: the selector's value is written differently
nvidia_device_plugin_node_selector_drifted ==
    {[key |-> "nvidia-device-plugin-enabled", value |-> "enabled",
      literal |-> "__main__.py:155"]}

\* __main__.py:154-156
nvidia_device_plugin_node_selector ==
    {[key |-> "nvidia-device-plugin-enabled", value |-> "true",
      literal |-> "__main__.py:155"]}

nvidia_device_plugin ==
    [type  |-> "kubernetes:apps/v1:DaemonSet",
     name  |-> "nvidia-device-plugin",
     deps  |-> {ClusterUrn},
     props |-> [provider      |-> ClusterUrn,
                update_strategy |-> "RollingUpdate",
                tolerations   |-> nvidia_device_plugin_tolerations,
                node_selector |-> nvidia_device_plugin_node_selector,
                priority_class_name |-> "system-node-critical"]]

\* variant: the workload tolerates another effect
pytorch_deployment_tolerations_no_execute ==
    {[key |-> "nvidia.com/gpu", operator |-> "Equal", value |-> "true",
      effect |-> "NoExecute"]}

\* variant: the workload's toleration is left out
pytorch_deployment_tolerations_omitted == {}

\* __main__.py:207-212
pytorch_deployment_tolerations ==
    {[key |-> "nvidia.com/gpu", operator |-> "Equal", value |-> "true",
      effect |-> "NoSchedule"]}

\* variant: the cpu limit is below the cpu request
pytorch_deployment_resources_low_cpu_limit ==
    [requests |-> ("cpu" :> Q(2, "") @@ "memory" :> Q(2, "Gi")
                   @@ "nvidia.com/gpu" :> Q(1, "")),
     limits   |-> ("cpu" :> Q(1, "") @@ "memory" :> Q(4, "Gi")
                   @@ "nvidia.com/gpu" :> Q(1, ""))]

\* __main__.py:217-228
pytorch_deployment_resources ==
    [requests |-> ("cpu" :> Q(2, "") @@ "memory" :> Q(2, "Gi")
                   @@ "nvidia.com/gpu" :> Q(1, "")),
     limits   |-> ("cpu" :> Q(4, "") @@ "memory" :> Q(4, "Gi")
                   @@ "nvidia.com/gpu" :> Q(1, ""))]

pytorch_deployment ==
    [type  |-> "kubernetes:apps/v1:Deployment",
     name  |-> "pytorch",
     deps  |-> {ClusterUrn, UrnOf(image)},
     props |-> [provider    |-> ClusterUrn,
                replicas    |-> 1,
                tolerations |-> pytorch_deployment_tolerations,
                image       |-> UrnOf(image),
                image_pull_policy |-> "Always",
                resources   |-> pytorch_deployment_resources]]

-----------------------------------------------------------------------------
(* The engine's registration of a resource *)

\* one registration: a URN registered twice in a run is an error; a URN
\* already created with the same inputs is left alone; anything else is
\* (re)scheduled for creation
Register(st, r) ==
    LET u == UrnOf(r) IN
    IF st.error \/ u \in st.registered
    THEN [st EXCEPT !.error = TRUE]
    ELSE [stack |->
            IF u \in DOMAIN st.stack /\ st.stack[u].status = "created"
               /\ st.stack[u].res = r
            THEN st.stack
            ELSE [v \in DOMAIN st.stack \cup {u} |->
                     IF v = u THEN [res |-> r, status |-> "pending"]
                     ELSE st.stack[v]],
          registered |-> st.registered \cup {u},
          error |-> FALSE]

RECURSIVE RegisterAll(_, _)
RegisterAll(st, rs) ==
    IF rs = << >> THEN st
    ELSE RegisterAll(Register(st, Head(rs)), Tail(rs))

\* a statement of the program that registers the resources rs
Statement(here, next, rs) ==
    /\ pc = here
    /\ ~halted
    /\ LET out == RegisterAll([stack |-> stack, registered |-> registered,
                               error |-> FALSE], rs)
       IN /\ stack' = out.stack
          /\ registered' = out.registered
          /\ pc' = IF out.error THEN "error" ELSE next
    /\ UNCHANGED <<run, config, min_cluster_size, max_cluster_size,
                   desired_cluster_size, halted>>

-----------------------------------------------------------------------------
(* The program, statement by statement *)

\* __main__.py:11
TrainingImage == Statement("training_image", "config", training_image)

\* __main__.py:70-75
ReadConfig ==
    /\ pc = "config"
    /\ ~halted
    /\ min_cluster_size' = get_int("minClusterSize", 3)
    /\ max_cluster_size' = get_int("maxClusterSize", 6)
    /\ desired_cluster_size' = get_int("desiredClusterSize", 3)
    /\ pc' = "create_role"
    /\ UNCHANGED <<run, config, registered, stack, halted>>

\* __main__.py:77
CreateRole == Statement("create_role", "eks_vpc", create_role("node-role"))

\* __main__.py:80-82
EksVpc == Statement("eks_vpc", "eks_cluster", << eks_vpc >>)

\* __main__.py:85-97
EksCluster ==
    Statement("eks_cluster", "managed_node_group_gpu",
              << eks_cluster(min_cluster_size, desired_cluster_size,
                             max_cluster_size) >>)

\* __main__.py:100-125
ManagedNodeGroupGpu ==
    Statement("managed_node_group_gpu", "nvidia_device_plugin",
              << managed_node_group_gpu >>)

\* __main__.py:128-186
NvidiaDevicePlugin ==
    Statement("nvidia_device_plugin", "pytorch_deployment",
              << nvidia_device_plugin >>)

\* __main__.py:189-234
PytorchDeployment ==
    Statement("pytorch_deployment", "done", << pytorch_deployment >>)

-----------------------------------------------------------------------------
(* The engine *)

Status(u) == IF u \in DOMAIN stack THEN stack[u].status ELSE "absent"

Created(u) == Status(u) = "created"

\* every resource u refers to has been created
Ready(u) == \A d \in stack[u].res.deps : Created(d)

SetStatus(u, s) == stack' = [stack EXCEPT ![u].status = s]

\* the conditions under which the engine makes the provider call for u
CanCreate(u) ==
    /\ u \in registered
    /\ ~halted
    /\ pc # "error"
    /\ stack[u].status = "pending"
    /\ Ready(u)

\* the provider call for u succeeds
Create(u) ==
    /\ CanCreate(u)
    /\ SetStatus(u, "created")
    /\ UNCHANGED <<pc, run, config, min_cluster_size, max_cluster_size,
                   desired_cluster_size, registered, halted>>

\* the provider rejects the call for u (ProviderError): the run ends
Fail(u) ==
    /\ CanCreate(u)
    /\ SetStatus(u, "failed")
    /\ halted' = TRUE
    /\ UNCHANGED <<pc, run, config, min_cluster_size, max_cluster_size,
                   desired_cluster_size, registered>>

\* the run is over: it was ended by a rejection or by an error of the
\* program, or the program has ended and every resource is created
Quiescent ==
    \/ halted
    \/ pc = "error"
    \/ pc = "done" /\ \A u \in registered : Created(u)

\* the whole workflow is invoked again on the same stack
Rerun ==
    /\ Quiescent
    /\ run < MaxRuns
    /\ run' = run + 1
    /\ pc' = "training_image"
    /\ registered' = {}
    /\ halted' = FALSE
    /\ min_cluster_size' = 0
    /\ max_cluster_size' = 0
    /\ desired_cluster_size' = 0
    /\ UNCHANGED <<config, stack>>

-----------------------------------------------------------------------------

Init ==
    /\ pc = "training_image"
    /\ run = 1
    /\ config \in Configs
    /\ min_cluster_size = 0
    /\ max_cluster_size = 0
    /\ desired_cluster_size = 0
    /\ registered = {}
    /\ stack = << >>
    /\ halted = FALSE

\* the stack configuration sets none of the keys: every value is its default
InitDefault ==
    /\ Init
    /\ \A k \in DOMAIN config : config[k] = << >>

Program ==
    \/ TrainingImage
    \/ ReadConfig
    \/ CreateRole
    \/ EksVpc
    \/ EksCluster
    \/ ManagedNodeGroupGpu
    \/ NvidiaDevicePlugin
    \/ PytorchDeployment

Engine ==
    \/ \E u \in DOMAIN stack : Create(u)
    \/ \E u \in DOMAIN stack : Fail(u)

\* one invocation of the workflow, under any configuration
Next == Program \/ Engine

Spec == Init /\ [][Next]_vars

\* repeated invocations of the workflow on the same stack
NextRerun == Program \/ Engine \/ Rerun

SpecRerun == InitDefault /\ [][NextRerun]_vars

-----------------------------------------------------------------------------
(* What the provider and the cluster make of the declared values *)

\* the effect a node carries for a taint effect of the EKS node group API
K8sEffect(e) ==
    CASE e = "NO_SCHEDULE"        -> "NoSchedule"
      [] e = "NO_EXECUTE"         -> "NoExecute"
      [] e = "PREFER_NO_SCHEDULE" -> "PreferNoSchedule"
      [] OTHER                    -> e

\* a pod with toleration tol may be scheduled on a node with taint t
Tolerates(tol, t) ==
    /\ tol.key = t.key
    /\ tol.effect = K8sEffect(t.effect)
    /\ \/ tol.operator = "Exists"
       \/ tol.operator = "Equal" /\ tol.value = t.value

\* the power of two a quantity suffix stands for
SuffixExponent(suffix) ==
    CASE suffix = ""   -> 0
      [] suffix = "Ki" -> 10
      [] suffix = "Mi" -> 20
      [] suffix = "Gi" -> 30

\* quantity a is strictly less than quantity b
QuantityLess(a, b) ==
    LET ea == SuffixExponent(a.suffix)
        eb == SuffixExponent(b.suffix)
        m  == IF ea < eb THEN ea ELSE eb
    IN a.amount * 2^(ea - m) < b.amount * 2^(eb - m)

-----------------------------------------------------------------------------
(* Names used by the properties *)

RoleUrn == UrnOf(node_role)
VpcUrn == UrnOf(eks_vpc)
PoolUrn == UrnOf(managed_node_group_gpu)
PluginUrn == UrnOf(nvidia_device_plugin)
WorkloadUrn == UrnOf(pytorch_deployment)

\* the provider call for u has been made
Attempted(u) == Status(u) \in {"created", "failed"}

Declared(u) == u \in DOMAIN stack

Props(u) == stack[u].res.props

\* the created attachments to the node role: resource and grant
Attachments ==
    {[urn |-> u, policy_arn |-> Props(u).policy_arn] :
        u \in {v \in DOMAIN stack :
                 /\ stack[v].res.type = "aws:iam:RolePolicyAttachment"
                 /\ Props(v).role = RoleUrn
                 /\ Created(v)}}

AttachmentUrns ==
    {u \in DOMAIN stack : stack[u].res.type = "aws:iam:RolePolicyAttachment"}

WorkloadRequestsGpu ==
    /\ Declared(WorkloadUrn)
    /\ "nvidia.com/gpu" \in DOMAIN Props(WorkloadUrn).resources.requests

KeyEffect(s) == {<<e.key, e.effect>> : e \in s}

KeyValue(s) == {<<e.key, e.value>> : e \in s}

Literals(s) == {e.literal : e \in s}

-----------------------------------------------------------------------------
(* Properties *)

\* C1: the provider call for the GPU node group is made only when the
\* cluster, the node role and the network (whose private subnets it is
\* placed in) have been created.
C1_PoolAfterClusterRoleNetwork ==
    Attempted(PoolUrn) => Created(ClusterUrn) /\ Created(RoleUrn) /\ Created(VpcUrn)

C1_Witness == Created(PoolUrn)

\* C2 (as claimed): the provider call for the device-plugin DaemonSet is made
\* only when the accelerator node group has been created.
C2_PluginAfterPool == Attempted(PluginUrn) => Created(PoolUrn)

\* C3 (as claimed): when the workload requests the accelerator resource, the
\* (key, effect) pairs of the node group's taints, as declared, are the
\* (key, effect) pairs tolerated by the device plugin and by the workload.
C3_DeclaredTaintEqualsTolerations ==
    WorkloadRequestsGpu =>
        /\ KeyEffect(Props(PoolUrn).taints) = KeyEffect(Props(PluginUrn).tolerations)
        /\ KeyEffect(Props(PoolUrn).taints) = KeyEffect(Props(WorkloadUrn).tolerations)

\* C3 (amended): when the workload requests the accelerator resource, the
\* (key, effect) pairs of the node group's taints, with the effect in the
\* form it has on the nodes, are the (key, effect) pairs tolerated by the
\* device plugin and by the workload.
C3_AppliedTaintEqualsTolerations ==
    WorkloadRequestsGpu =>
        LET applied == {<<t.key, K8sEffect(t.effect)>> : t \in Props(PoolUrn).taints}
        IN /\ applied = KeyEffect(Props(PluginUrn).tolerations)
           /\ applied = KeyEffect(Props(WorkloadUrn).tolerations)

C3_Witness ==
    WorkloadRequestsGpu /\ Created(PoolUrn) /\ Created(PluginUrn) /\ Created(WorkloadUrn)

C5_CapacityOrdered ==
    /\ Attempted(ClusterUrn) =>
          /\ Props(ClusterUrn).min_size <= Props(ClusterUrn).desired_capacity
          /\ Props(ClusterUrn).desired_capacity <= Props(ClusterUrn).max_size
    /\ Attempted(PoolUrn) =>
          /\ Props(PoolUrn).scaling_config.min_size
                <= Props(PoolUrn).scaling_config.desired_size
          /\ Props(PoolUrn).scaling_config.desired_size
                <= Props(PoolUrn).scaling_config.max_size

\* C6: a cluster for which the provider call has been made has its public
\* or its private endpoint enabled.
C6_ClusterReachable ==
    Attempted(ClusterUrn) =>
        \/ Props(ClusterUrn).endpoint_public_access
        \/ Props(ClusterUrn).endpoint_private_access

C6_Witness == Created(ClusterUrn)

\* C7: the node role never has more than five attachments, no run of the
\* program ends in an error of the program, and once the five attachments
\* are made no step of any later run changes them.
C7_CreateRoleIdempotent ==
    /\ [](pc # "error" /\ Cardinality(Attachments) <= 5)
    /\ [][Cardinality(Attachments) = 5 => Attachments' = Attachments]_vars

C7_Witness ==
    /\ run > 1
    /\ pc = "done"
    /\ Cardinality(Attachments) = 5
    /\ {a.policy_arn : a \in Attachments}
         = {managed_policy_arns[i] : i \in 1..4} \cup {ArnOf(EcrPolicy("node-role"))}

C9_AttachmentsIndependent ==
    /\ [](\A u \in AttachmentUrns :
             /\ stack[u].res.deps \subseteq {RoleUrn, UrnOf(EcrPolicy("node-role"))}
             /\ stack[u].res.deps \cap AttachmentUrns = {})
    /\ [][\A u \in AttachmentUrns : Created(u) => stack'[u].status = "created"]_vars

C9_Witness ==
    /\ Status(UrnOf(ManagedAttachment("node-role", 2))) = "failed"
    /\ Created(UrnOf(ManagedAttachment("node-role", 0)))
    /\ Created(UrnOf(ManagedAttachment("node-role", 1)))
    /\ Status(UrnOf(ManagedAttachment("node-role", 3))) = "pending"

\* C10: the workload requests one accelerator and is limited to one, and
\* its cpu and memory limits are strictly above its requests.
C10_WorkloadResources ==
    Declared(WorkloadUrn) =>
        LET req == Props(WorkloadUrn).resources.requests
            lim == Props(WorkloadUrn).resources.limits
        IN /\ req["nvidia.com/gpu"] = Q(1, "")
           /\ lim["nvidia.com/gpu"] = Q(1, "")
           /\ QuantityLess(req["cpu"], lim["cpu"])
           /\ QuantityLess(req["memory"], lim["memory"])

C10_Witness == Created(WorkloadUrn)

====
